---- MODULE Spec2Model ----
(***************************************************************************)
(* Study-plan allocator of Gear_com_revisao: build_lessons_queue,          *)
(* generate_study_days, simulate_schedule (the per-day budget simulator),  *)
(* normalize_reviews and try_fit_with_removals, as called from main().     *)
(*                                                                         *)
(* Dates are day numbers; day 0 is a Monday, so weekday(d) = d % 7 with    *)
(* 0 = Monday .. 6 = Sunday as in datetime.date.weekday().                 *)
(* Minutes are held in units of 1/SCALE minute, so that the products of    *)
(* the budget with the fraction, borrow and residual tables are exact and  *)
(* the 1e-6 tolerance of the simulator is one unit (EPS).                  *)
(***************************************************************************)
EXTENDS Integers, Sequences, FiniteSets, TLC

\* ------------------------------------------------------------------ bounds
\* rows of lista_de_aulas.xlsx
MaxLessons == 3
\* largest weight of a module in the selected exam-type column
MaxPeso == 2

\* module names of lista_de_temas.xlsx
Modulos == {"M1", "M2"}
\* weights a module may carry (astype(int): negative values are possible)
PesoVals == (-1)..MaxPeso
\* lesson durations, minutes
Duracoes == {55, 90}
\* minutos_por_dia
Budgets == {100, 200}
\* review_offsets chosen in the GUI (sorted lists)
OffsetLists == {<<1, 3>>, <<2>>}
\* calendar parameters: data_inicio, data_prova, dias_por_semana, custom_weekdays
\* (the empty set stands for None: main passes None when no weekday is ticked)
CalConfigs ==
    { [dini |-> 0, dprova |-> 2,  dias_por_semana |-> 1, custom_weekdays |-> {}],
      [dini |-> 0, dprova |-> 5,  dias_por_semana |-> 3, custom_weekdays |-> {0, 3}],
      [dini |-> 0, dprova |-> 10, dias_por_semana |-> 2, custom_weekdays |-> {}] }

\* the calendar function on its own: start dates over one week, ranges of up to
\* MaxSpan days after the start (and one ending before it), weekly counts from
\* -1 to MaxDias, and the weekday sets of at most two weekdays (0 = Monday)
MaxSpan == 15
MaxDias == 8
CalStarts == 0..6
WeekdaySets == { W \in SUBSET (0..6) : Cardinality(W) <= 2 }
CalInputs ==
    { c \in [dini : CalStarts, dprova : (-1)..(6 + MaxSpan),
             dias_por_semana : (-1)..MaxDias, custom_weekdays : WeekdaySets] :
        c.dprova >= c.dini - 1 /\ c.dprova <= c.dini + MaxSpan }

\* longer calendars with lessons that overrun a day: a budget of 100 minutes,
\* lessons of 55, 88 (what day 0 can hold by borrowing) and 120 minutes (150% of
\* day 0's A quota), sheets of at most WideRows rows and one of six rows
WideRows == 2
WideBudgets == {100}
WideDuracoes == {55, 88, 120}
WidePesos == 0..2
WideOffsets == {<<1, 3>>}
LongSheet ==
    << [aula |-> 1, modulo |-> "M1", dur |-> 120], [aula |-> 2, modulo |-> "M2", dur |-> 55],
       [aula |-> 3, modulo |-> "M1", dur |-> 120], [aula |-> 4, modulo |-> "M2", dur |-> 55],
       [aula |-> 5, modulo |-> "M2", dur |-> 120], [aula |-> 6, modulo |-> "M1", dur |-> 55] >>
WideSheets ==
    {LongSheet} \cup
    UNION { { [i \in 1..n |-> [aula |-> i, modulo |-> f[i][1], dur |-> f[i][2]]] :
              f \in [1..n -> Modulos \X WideDuracoes] } : n \in 0..WideRows }
\* calendars of 1, 2, 4, 5, 9 and 16 consecutive days, and Tuesdays and Fridays
\* of two weeks
WideCals ==
    { [dini |-> 0, dprova |-> e, dias_por_semana |-> 7, custom_weekdays |-> {}] :
        e \in {0, 1, 3, 4, 8, 15} }
    \cup { [dini |-> 0, dprova |-> 13, dias_por_semana |-> 2, custom_weekdays |-> {1, 4}] }

\* --------------------------------------------------------------- constants
SCALE == 1000000
EPS == 1

Phases == {"inicio", "meio", "final", "preprova"}

\* percentages of the daily budget
FRACTIONS_BY_PHASE ==
    [ inicio   |-> [A |-> 75, Q |-> 15, R |-> 10],
      meio     |-> [A |-> 65, Q |-> 15, R |-> 20],
      final    |-> [A |-> 60, Q |-> 15, R |-> 25],
      preprova |-> [A |-> 50, Q |-> 15, R |-> 30] ]

\* the fixed fractions of day index 0
FRACTIONS_DAY0 == [A |-> 80, Q |-> 20, R |-> 0]

BORROW_Q_BY_PHASE == [inicio |-> 40, meio |-> 30, final |-> 20, preprova |-> 15]

BORROW_R == 10

RESIDUAL_POLICY ==
    [ inicio   |-> [Q |-> 100, R |-> 0],
      meio     |-> [Q |-> 70,  R |-> 30],
      final    |-> [Q |-> 50,  R |-> 50],
      preprova |-> [Q |-> 30,  R |-> 70] ]

\* ----------------------------------------------------------------- helpers
Max(a, b) == IF a >= b THEN a ELSE b
Min(a, b) == IF a <= b THEN a ELSE b

\* x * pct / 100 (x in 1/SCALE minutes), computed without leaving 32 bits
MulPct(x, pct) == (x \div 100) * pct + ((x % 100) * pct) \div 100

\* the outcomes of int(round(x)) of Python 3 for the float x that v / SCALE stands
\* for. Off a tie the result is the nearest integer. On an exact tie k + 0.5 the
\* float the code holds is k + 0.5 itself (rounded half to even) or a neighbour
\* of it one rounding error below or above (45.0 * 0.7 = 31.499999999999996
\* gives 31); the state does not carry that error, so both k and k + 1 are
\* outcomes.
PyRound(v) ==
    LET f == v \div SCALE
        r == v % SCALE
    IN  IF 2 * r < SCALE THEN {f}
        ELSE IF 2 * r > SCALE THEN {f + 1}
        ELSE {f, f + 1}

Range(s) == { s[i] : i \in DOMAIN s }

RECURSIVE SortedSeq_Desc(_)
\* sorted(..., reverse=True)
SortedSeq_Desc(S) ==
    IF S = {} THEN <<>>
    ELSE LET m == CHOOSE x \in S : \A y \in S : x >= y
         IN  <<m>> \o SortedSeq_Desc(S \ {m})

RECURSIVE SortedSeq(_)
\* sorted(list(S)) for a finite set of integers
SortedSeq(S) ==
    IF S = {} THEN <<>>
    ELSE LET m == CHOOSE x \in S : \A y \in S : x <= y
         IN  <<m>> \o SortedSeq(S \ {m})

RECURSIVE SumDur(_)
SumDur(ls) == IF ls = <<>> THEN 0 ELSE Head(ls).dur + SumDur(Tail(ls))

\* list.index(x)
IndexOf(s, x) == CHOOSE i \in DOMAIN s : s[i] = x /\ \A j \in 1..(i - 1) : s[j] # x

\* ------------------------------------------------------ generate_study_days
weekday(d) == d % 7

\* the week starting on Monday
week_start_Monday(d) == d - weekday(d)

week_start(d) == d - ((weekday(d) + 1) % 7)

\* the candidates of one Sunday-to-Saturday week inside [dini, dprova]
WeekCandidates(start, dini, dprova) ==
    { c \in start..(start + 6) : ~(c < dini \/ c > dprova) }

\* week_days cut to dias_por_semana in both branches
week_days_TruncCustom(start, dini, dprova, dias_por_semana, custom_weekdays) ==
    LET all == IF custom_weekdays # {}
               THEN SortedSeq({ c \in WeekCandidates(start, dini, dprova) :
                                 weekday(c) \in custom_weekdays })
               ELSE SortedSeq(WeekCandidates(start, dini, dprova))
    IN  SubSeq(all, 1, Min(Len(all), dias_por_semana))

week_days(start, dini, dprova, dias_por_semana, custom_weekdays) ==
    IF custom_weekdays # {}
    THEN SortedSeq({ c \in WeekCandidates(start, dini, dprova) : weekday(c) \in custom_weekdays })
    ELSE LET all == SortedSeq(WeekCandidates(start, dini, dprova))
         IN  SubSeq(all, 1, Min(Len(all), dias_por_semana))

RECURSIVE WeekLoop(_, _, _, _, _)
\* the while loop: cur runs over the weeks, study_days is extended week by week
WeekLoop(cur, dini, dprova, dias_por_semana, custom_weekdays) ==
    IF ~(cur <= dprova) THEN <<>>
    ELSE LET start == week_start(cur)
             wd == week_days(start, dini, dprova, dias_por_semana, custom_weekdays)
         IN  SelectSeq(wd, LAMBDA d : d >= dini /\ d <= dprova)
             \o WeekLoop(start + 7, dini, dprova, dias_por_semana, custom_weekdays)

\* generate_study_days returning early only when no weekday set is given
generate_study_days_CustomFirst(dini, dprova, dias_por_semana, custom_weekdays) ==
    IF dias_por_semana <= 0 /\ custom_weekdays = {} THEN <<>>
    ELSE SortedSeq(Range(WeekLoop(dini, dini, dprova, dias_por_semana, custom_weekdays)))

generate_study_days(dini, dprova, dias_por_semana, custom_weekdays) ==
    IF dias_por_semana <= 0 THEN <<>>
    ELSE SortedSeq(Range(WeekLoop(dini, dini, dprova, dias_por_semana, custom_weekdays)))

\* ---------------------------------------------------------- determine_phase
\* determine_phase with the quarter rounded up
determine_phase_RoundUp(idx, total_days) ==
    IF total_days = 0 THEN "inicio"
    ELSE LET q == (total_days + 3) \div 4
         IN  IF idx < q THEN "inicio"
             ELSE IF idx < 2 * q THEN "meio"
             ELSE IF idx < 3 * q THEN "final"
             ELSE "preprova"

determine_phase(idx, total_days) ==
    IF total_days = 0 THEN "inicio"
    ELSE LET q == total_days \div 4
         IN  IF idx < q THEN "inicio"
             ELSE IF idx < 2 * q THEN "meio"
             ELSE IF idx < 3 * q THEN "final"
             ELSE "preprova"

\* -------------------------------------------------------- normalize_reviews
RECURSIVE ScanForward(_, _, _)
\* while d <= last and d not in study_days_set: d = d + 1
ScanForward(d, last, study_days_set) ==
    IF d <= last /\ d \notin study_days_set
    THEN ScanForward(d + 1, last, study_days_set)
    ELSE d

\* reviews[k] = items: the list of the day replaced instead of extended
ExtendAt_Assign(reviews, k, items) ==
    [x \in DOMAIN reviews \cup {k} |-> IF x = k THEN items ELSE reviews[x]]

\* reviews[k].extend(items) on a defaultdict(list)
ExtendAt(reviews, k, items) ==
    IF k \in DOMAIN reviews
    THEN [reviews EXCEPT ![k] = @ \o items]
    ELSE [x \in DOMAIN reviews \cup {k} |-> IF x = k THEN items ELSE reviews[x]]

\* ReviewTarget omitting the targets that fall on the last study day as well
ReviewTarget_DropLast(t_raw, last, study_days_set) ==
    IF t_raw >= last THEN <<FALSE, 0>>
    ELSE IF t_raw \in study_days_set THEN <<TRUE, t_raw>>
    ELSE LET d == ScanForward(t_raw, last, study_days_set)
         IN  IF d \in study_days_set THEN <<TRUE, d>> ELSE <<FALSE, 0>>

\* where the items of raw target t_raw go: <<TRUE, day>> or <<FALSE, 0>> (omitted)
ReviewTarget(t_raw, last, study_days_set) ==
    IF t_raw > last THEN <<FALSE, 0>>
    ELSE IF t_raw \in study_days_set THEN <<TRUE, t_raw>>
    ELSE LET d == ScanForward(t_raw, last, study_days_set)
         IN  IF d \in study_days_set THEN <<TRUE, d>> ELSE <<FALSE, 0>>

RECURSIVE NormalizeLoop(_, _, _, _)
\* for t_raw, items in reviews_raw.items(): in the insertion order of the keys
NormalizeLoop(raw, last, study_days_set, reviews) ==
    IF raw = <<>> THEN reviews
    ELSE LET e == Head(raw)
             tg == ReviewTarget(e.t_raw, last, study_days_set)
         IN  NormalizeLoop(Tail(raw), last, study_days_set,
                 IF tg[1] THEN ExtendAt(reviews, tg[2], e.items) ELSE reviews)

\* what normalize_reviews yields when max(study_days) raises on an empty list
ValueError == "ValueError"

\* reviews_raw is the list of (t_raw, items) in key insertion order; the result
\* maps each key created to its list of events. study_days_set and last are
\* taken on entry: with no study day max() raises, whatever reviews_raw holds.
normalize_reviews(reviews_raw, study_days) ==
    IF study_days = <<>> THEN ValueError
    ELSE LET study_days_set == Range(study_days)
             last == CHOOSE m \in study_days_set : \A y \in study_days_set : y <= m
         IN  NormalizeLoop(reviews_raw, last, study_days_set, <<>>)

\* ------------------------------------------------------------------- state
VARIABLES
    pc,                  \* position in main / try_fit_with_removals / simulate_schedule
    minutos_dia,         \* params["minutos_por_dia"]
    temas_df,            \* module -> value of the selected exam-type column
    aulas_df,            \* rows (aula, modulo, dur) of the lesson sheet, in order
    cal,                 \* data_inicio, data_prova, dias_por_semana, custom_weekdays
    review_offsets,
    lessons_all, peso_map, custo_map,      \* build_lessons_queue's results
    study_days,
    given,               \* simulate_schedule's argument lessons_all of the current call
    ret,                 \* which call of simulate_schedule is running: "first" or "loop"
    queue, daily, reviews_raw, must_force_carryover, idx, day,
    all_allocated, reviews,                \* simulate_schedule's results
    mods_sorted, removed_modules, working_lessons,
    ok, removed_lessons,                   \* try_fit_with_removals' results
    run_log              \* the calls of simulate_schedule so far: argument and outcome

inputs == <<minutos_dia, temas_df, aulas_df, cal, review_offsets>>
built == <<lessons_all, peso_map, custo_map>>
simv == <<given, ret, queue, daily, reviews_raw, must_force_carryover, idx, day>>
simres == <<all_allocated, reviews>>
fitv == <<mods_sorted, removed_modules, working_lessons>>
fitres == <<ok, removed_lessons>>
vars == <<pc, inputs, built, study_days, simv, simres, fitv, fitres, run_log>>

\* the lesson sheets of at most MaxLessons rows; a row's name is its row number
AulasSheets ==
    UNION { { [i \in 1..n |-> [aula |-> i, modulo |-> f[i][1], dur |-> f[i][2]]] :
              f \in [1..n -> Modulos \X Duracoes] } : n \in 0..MaxLessons }

NoDay ==
    [A_quota |-> 0, Q_quota |-> 0, R_quota |-> 0, max_borrow_Q |-> 0, max_borrow_R |-> 0,
     borrowed_Q |-> 0, borrowed_R |-> 0, force_debt |-> 0, phase |-> "inicio"]

\* nothing computed yet
Cleared ==
    /\ study_days = <<>>
    /\ given = <<>> /\ ret = "first" /\ queue = <<>> /\ daily = <<>> /\ reviews_raw = <<>>
    /\ must_force_carryover = FALSE /\ idx = 0 /\ day = NoDay
    /\ all_allocated = FALSE /\ reviews = <<>>
    /\ mods_sorted = <<>> /\ removed_modules = <<>> /\ working_lessons = <<>>
    /\ ok = FALSE /\ removed_lessons = <<>>
    /\ run_log = <<>>

Init ==
    /\ pc = "build"
    /\ minutos_dia \in Budgets
    /\ temas_df \in [Modulos -> PesoVals]
    /\ aulas_df \in AulasSheets
    /\ cal \in CalConfigs
    /\ review_offsets \in OffsetLists
    /\ lessons_all = <<>> /\ peso_map = <<>> /\ custo_map = <<>>
    /\ Cleared

\* ------------------------------------------------------ build_lessons_queue
\* temas_valid keeping the modules of weight 0
temas_valid_NonNeg(temas) == { m \in DOMAIN temas : temas[m] >= 0 }

\* temas_valid: the modules whose weight is > 0
temas_valid(temas) == { m \in DOMAIN temas : temas[m] > 0 }

\* dict.get(m, 0)
PesoGet(pm, m) == IF m \in DOMAIN pm THEN pm[m] ELSE 0

build_peso_map(temas) == [m \in temas_valid(temas) |-> temas[m]]

\* groupby("Nome do Tema")["Duração"].sum(), left-merged on temas_valid, fillna 0
build_custo_map(temas, aulas) ==
    [m \in temas_valid(temas) |-> SumDur(SelectSeq(aulas, LAMBDA r : r.modulo = m))]

build_lessons(temas, aulas) ==
    LET pm == build_peso_map(temas)
        aulas_filtradas == SelectSeq(aulas, LAMBDA r : r.modulo \in temas_valid(temas))
    IN  [i \in DOMAIN aulas_filtradas |->
            [aula |-> aulas_filtradas[i].aula, modulo |-> aulas_filtradas[i].modulo,
             dur |-> aulas_filtradas[i].dur, peso |-> PesoGet(pm, aulas_filtradas[i].modulo)]]

BuildLessonsQueue ==
    /\ pc = "build"
    /\ lessons_all' = build_lessons(temas_df, aulas_df)
    /\ peso_map' = build_peso_map(temas_df)
    /\ custo_map' = build_custo_map(temas_df, aulas_df)
    /\ pc' = "calendar"
    /\ UNCHANGED <<inputs, study_days, simv, simres, fitv, fitres, run_log>>

\* main: study_days = generate_study_days(...); SystemExit when there is none
GenerateStudyDays ==
    /\ pc = "calendar"
    /\ study_days' = generate_study_days(cal.dini, cal.dprova, cal.dias_por_semana,
                                         cal.custom_weekdays)
    /\ pc' = IF study_days' = <<>> THEN "exit" ELSE "fit"
    /\ UNCHANGED <<inputs, built, simv, simres, fitv, fitres, run_log>>

\* -------------------------------------------------------- simulate_schedule
\* daily[d] for every study day, with its phase by index in the full calendar
InitDaily(days) ==
    [d \in Range(days) |->
        [A_lessons |-> <<>>, Q_min |-> 0, R_min |-> 0,
         phase |-> determine_phase(IndexOf(days, d) - 1, Len(days))]]

\* reviews_raw[t_raw].append(ev) on a defaultdict(list) kept in key insertion order
AppendRaw(raw, t_raw, ev) ==
    IF \E i \in DOMAIN raw : raw[i].t_raw = t_raw
    THEN [i \in DOMAIN raw |->
            IF raw[i].t_raw = t_raw
            THEN [t_raw |-> t_raw, items |-> Append(raw[i].items, ev)]
            ELSE raw[i]]
    ELSE Append(raw, [t_raw |-> t_raw, items |-> <<ev>>])

\* the events filed under the watch date itself, the offset left out
EmitReviews_NoOffset(raw, lesson, d, offs, pm) ==
    IF offs = <<>> THEN raw
    ELSE AppendRaw(raw, d,
                   [aula |-> lesson.aula, modulo |-> lesson.modulo,
                    watched_date |-> d, peso |-> PesoGet(pm, lesson.modulo)])

\* the loop over review_offsets left after its first round
EmitReviews_OnlyFirst(raw, lesson, d, offs, pm) ==
    IF offs = <<>> THEN raw
    ELSE AppendRaw(raw, d + Head(offs),
                   [aula |-> lesson.aula, modulo |-> lesson.modulo,
                    watched_date |-> d, peso |-> PesoGet(pm, lesson.modulo)])

RECURSIVE EmitReviews(_, _, _, _, _)
\* for off in review_offsets: reviews_raw[d + off].append({...})
EmitReviews(raw, lesson, d, offs, pm) ==
    IF offs = <<>> THEN raw
    ELSE EmitReviews(
            AppendRaw(raw, d + Head(offs),
                      [aula |-> lesson.aula, modulo |-> lesson.modulo,
                       watched_date |-> d, peso |-> PesoGet(pm, lesson.modulo)]),
            lesson, d, Tail(offs), pm)

\* the quotas and borrow ceilings of day index i (lines 1165-1181)
DayQuotas(i, phase, minutos) ==
    LET fr == IF i = 0 THEN FRACTIONS_DAY0 ELSE FRACTIONS_BY_PHASE[phase]
        Qq == MulPct(minutos * SCALE, fr.Q)
        Rq == MulPct(minutos * SCALE, fr.R)
    IN  [A_quota |-> MulPct(minutos * SCALE, fr.A), Q_quota |-> Qq, R_quota |-> Rq,
         max_borrow_Q |-> MulPct(Qq, BORROW_Q_BY_PHASE[phase]),
         max_borrow_R |-> MulPct(Rq, BORROW_R),
         borrowed_Q |-> 0, borrowed_R |-> 0, force_debt |-> 0, phase |-> phase]

\* _force_first_if_needed borrowing from Q without the ceiling
ForceConsume_NoCap(dv, dur) ==
    LET use_A == Min(dv.A_quota, dur * SCALE)
        use_Qb == dur * SCALE - use_A
    IN  [dv EXCEPT !.A_quota = @ - use_A,
                   !.borrowed_Q = @ + use_Qb]

\* _force_first_if_needed taking the debt before the R headroom is used
ForceConsume_DebtBeforeR(dv, dur) ==
    LET use_A == Min(dv.A_quota, dur * SCALE)
        remain1 == dur * SCALE - use_A
        use_Qb == Min(Max(0, dv.max_borrow_Q - dv.borrowed_Q), remain1)
        remain2 == remain1 - use_Qb
        use_Rb == Min(Max(0, dv.max_borrow_R - dv.borrowed_R), remain2)
    IN  [dv EXCEPT !.A_quota = @ - use_A,
                   !.borrowed_Q = @ + use_Qb,
                   !.borrowed_R = @ + use_Rb,
                   !.force_debt = IF remain2 > EPS THEN @ + remain2 ELSE @]

\* _force_first_if_needed recording no force debt
ForceConsume_NoDebt(dv, dur) ==
    LET use_A == Min(dv.A_quota, dur * SCALE)
        remain1 == dur * SCALE - use_A
        use_Qb == Min(Max(0, dv.max_borrow_Q - dv.borrowed_Q), remain1)
        use_Rb == Min(Max(0, dv.max_borrow_R - dv.borrowed_R), remain1 - use_Qb)
    IN  [dv EXCEPT !.A_quota = @ - use_A,
                   !.borrowed_Q = @ + use_Qb,
                   !.borrowed_R = @ + use_Rb]

\* the arithmetic of _force_first_if_needed on a lesson of dur minutes
ForceConsume(dv, dur) ==
    LET use_A == Min(dv.A_quota, dur * SCALE)
        remain1 == dur * SCALE - use_A
        avail_Qb == Max(0, dv.max_borrow_Q - dv.borrowed_Q)
        use_Qb == Min(avail_Qb, remain1)
        remain2 == remain1 - use_Qb
        avail_Rb == Max(0, dv.max_borrow_R - dv.borrowed_R)
        use_Rb == Min(avail_Rb, remain2)
        remain3 == remain2 - use_Rb
    IN  [dv EXCEPT !.A_quota = @ - use_A,
                   !.borrowed_Q = @ + use_Qb,
                   !.borrowed_R = @ + use_Rb,
                   !.force_debt = IF remain3 > EPS THEN @ + remain3 ELSE @]

\* available = A_quota + Q-borrow headroom + R-borrow headroom
Available(dv) ==
    dv.A_quota + Max(0, dv.max_borrow_Q - dv.borrowed_Q)
               + Max(0, dv.max_borrow_R - dv.borrowed_R)

Fits(dv, dur) == dur * SCALE <= Available(dv) + EPS

\* the greedy branch taking the Q headroom before the A quota
GreedyConsume_QFirst(dv, dur) ==
    LET take_Q == Min(dur * SCALE, Max(0, dv.max_borrow_Q - dv.borrowed_Q))
        need2 == Max(0, dur * SCALE - take_Q - dv.A_quota)
        take_R == Min(need2, Max(0, dv.max_borrow_R - dv.borrowed_R))
        A1 == dv.A_quota - Max(0, dur * SCALE - (take_Q + take_R))
    IN  [dv EXCEPT !.A_quota = IF A1 < 0 THEN 0 ELSE A1,
                   !.borrowed_Q = @ + take_Q,
                   !.borrowed_R = @ + take_R]

\* the arithmetic of the greedy branch on a lesson of dur minutes that fits
GreedyConsume(dv, dur) ==
    LET need == Max(0, dur * SCALE - dv.A_quota)
        take_Q == Min(need, Max(0, dv.max_borrow_Q - dv.borrowed_Q))
        need2 == need - take_Q
        take_R == Min(need2, Max(0, dv.max_borrow_R - dv.borrowed_R))
        A1 == dv.A_quota - Max(0, dur * SCALE - (take_Q + take_R))
    IN  [dv EXCEPT !.A_quota = IF A1 < 0 THEN 0 ELSE A1,
                   !.borrowed_Q = @ + take_Q,
                   !.borrowed_R = @ + take_R]

\* the residual dropped instead of redistributed
Redistribute_DropResidual(dv) == [dv EXCEPT !.A_quota = 0]

\* the residual redistribution with the two shares exchanged
Redistribute_Swapped(dv) ==
    LET resid == dv.A_quota
        pol == RESIDUAL_POLICY[dv.phase]
    IN  [dv EXCEPT !.Q_quota = @ + MulPct(resid, pol.R),
                   !.R_quota = @ + MulPct(resid, pol.Q),
                   !.A_quota = 0]

\* residual redistribution: Q_quota += resid * pol.Q, R_quota += resid * pol.R, A_quota = 0
Redistribute(dv) ==
    LET resid == dv.A_quota
        pol == RESIDUAL_POLICY[dv.phase]
    IN  [dv EXCEPT !.Q_quota = @ + MulPct(resid, pol.Q),
                   !.R_quota = @ + MulPct(resid, pol.R),
                   !.A_quota = 0]

\* Q_final without the clamp at 0
Q_final_NoClamp(dv) == PyRound(dv.Q_quota - dv.borrowed_Q - dv.force_debt \div 2)

\* the outcomes of max(0, int(round(Q_quota - borrowed_Q - force_debt / 2.0)))
Q_final(dv) ==
    { Max(0, m) : m \in PyRound(dv.Q_quota - dv.borrowed_Q - dv.force_debt \div 2) }

\* the outcomes of max(0, int(round(R_quota - borrowed_R - force_debt / 2.0)))
R_final(dv) ==
    { Max(0, m) : m \in PyRound(dv.R_quota - dv.borrowed_R - dv.force_debt \div 2) }

today == study_days[idx + 1]

\* the entry of simulate_schedule keeping the carryover flag of the run before
SimStart_KeepFlag(ls, who) ==
    /\ given' = ls
    /\ ret' = who
    /\ queue' = ls
    /\ daily' = InitDaily(study_days)
    /\ reviews_raw' = <<>>
    /\ must_force_carryover' = must_force_carryover
    /\ idx' = 0
    /\ day' = NoDay
    /\ pc' = IF Len(study_days) > 0 THEN "day" ELSE "sim_end"

\* the entry of simulate_schedule(study_days, minutos_dia, ls, ...), lines 1150-1162
SimStart(ls, who) ==
    /\ given' = ls
    /\ ret' = who
    /\ queue' = ls
    /\ daily' = InitDaily(study_days)
    /\ reviews_raw' = <<>>
    /\ must_force_carryover' = FALSE
    /\ idx' = 0
    /\ day' = NoDay
    /\ pc' = IF Len(study_days) > 0 THEN "day" ELSE "sim_end"

\* ForceFirst reading the front lesson without popping it
ForceFirst_Peek ==
    IF queue = <<>>
    THEN /\ must_force_carryover' = FALSE
         /\ UNCHANGED <<queue, day, daily, reviews_raw>>
    ELSE LET lesson == Head(queue)
         IN  /\ queue' = queue
             /\ day' = ForceConsume(day, lesson.dur)
             /\ daily' = [daily EXCEPT ![today].A_lessons = Append(@, lesson)]
             /\ reviews_raw' = EmitReviews(reviews_raw, lesson, today, review_offsets, peso_map)
             /\ must_force_carryover' = FALSE

\* _force_first_if_needed()
ForceFirst ==
    IF queue = <<>>
    THEN /\ must_force_carryover' = FALSE
         /\ UNCHANGED <<queue, day, daily, reviews_raw>>
    ELSE LET lesson == Head(queue)
         IN  /\ queue' = Tail(queue)
             /\ day' = ForceConsume(day, lesson.dur)
             /\ daily' = [daily EXCEPT ![today].A_lessons = Append(@, lesson)]
             /\ reviews_raw' = EmitReviews(reviews_raw, lesson, today, review_offsets, peso_map)
             /\ must_force_carryover' = FALSE

\* for idx, d in enumerate(study_days): quotas and borrow ceilings of the day
DayBegin ==
    /\ pc = "day"
    /\ day' = DayQuotas(idx, daily[today].phase, minutos_dia)
    /\ pc' = IF must_force_carryover THEN "carry" ELSE "greedy"
    /\ UNCHANGED <<inputs, built, study_days, given, ret, queue, daily, reviews_raw,
                   must_force_carryover, idx, simres, fitv, fitres, run_log>>

\* if must_force_carryover: _force_first_if_needed()
ForceCarryover ==
    /\ pc = "carry"
    /\ ForceFirst
    /\ pc' = "greedy"
    /\ UNCHANGED <<inputs, built, study_days, given, ret, idx, simres, fitv, fitres, run_log>>

\* GreedyFit taking the first lesson of the queue that fits, not only the front one
GreedyFit_FirstThatFits ==
    /\ pc = "greedy"
    /\ \E i \in DOMAIN queue :
        /\ Fits(day, queue[i].dur)
        /\ \A j \in 1..(i - 1) : ~Fits(day, queue[j].dur)
        /\ day' = GreedyConsume(day, queue[i].dur)
        /\ queue' = SubSeq(queue, 1, i - 1) \o SubSeq(queue, i + 1, Len(queue))
        /\ daily' = [daily EXCEPT ![today].A_lessons = Append(@, queue[i])]
        /\ reviews_raw' = EmitReviews(reviews_raw, queue[i], today, review_offsets, peso_map)
    /\ UNCHANGED <<pc, inputs, built, study_days, given, ret, must_force_carryover, idx,
                   simres, fitv, fitres, run_log>>

\* while queue: the front lesson fits
GreedyFit ==
    /\ pc = "greedy"
    /\ queue # <<>>
    /\ Fits(day, Head(queue).dur)
    /\ day' = GreedyConsume(day, Head(queue).dur)
    /\ queue' = Tail(queue)
    /\ daily' = [daily EXCEPT ![today].A_lessons = Append(@, Head(queue))]
    /\ reviews_raw' = EmitReviews(reviews_raw, Head(queue), today, review_offsets, peso_map)
    /\ UNCHANGED <<pc, inputs, built, study_days, given, ret, must_force_carryover, idx,
                   simres, fitv, fitres, run_log>>

\* the break of the greedy loop without setting the carryover flag
GreedyDefer_NoFlag ==
    /\ pc = "greedy"
    /\ queue # <<>>
    /\ ~Fits(day, Head(queue).dur)
    /\ pc' = "after"
    /\ UNCHANGED <<inputs, built, study_days, simv, simres, fitv, fitres, run_log>>

\* while queue: the front lesson does not fit
GreedyDefer ==
    /\ pc = "greedy"
    /\ queue # <<>>
    /\ ~Fits(day, Head(queue).dur)
    /\ must_force_carryover' = TRUE
    /\ pc' = "after"
    /\ UNCHANGED <<inputs, built, study_days, given, ret, queue, daily, reviews_raw, idx, day,
                   simres, fitv, fitres, run_log>>

\* while queue: the queue is empty
GreedyExit ==
    /\ pc = "greedy"
    /\ queue = <<>>
    /\ pc' = "after"
    /\ UNCHANGED <<inputs, built, study_days, simv, simres, fitv, fitres, run_log>>

\* the check of line 1257 without its first half
EmptyDayWithContent_AnyDay == queue # <<>>

\* the check of line 1257 left out
EmptyDayWithContent_Never == FALSE

EmptyDayWithContent == daily[today].A_lessons = <<>> /\ queue # <<>>

\* the empty-day rule doing nothing
ForceEmptyDay_Skip ==
    /\ pc = "after"
    /\ EmptyDayWithContent
    /\ pc' = "close"
    /\ UNCHANGED <<inputs, built, study_days, simv, simres, fitv, fitres, run_log>>

\* if not daily[d]["A_lessons"] and queue: _force_first_if_needed()
ForceEmptyDay ==
    /\ pc = "after"
    /\ EmptyDayWithContent
    /\ ForceFirst
    /\ pc' = "close"
    /\ UNCHANGED <<inputs, built, study_days, given, ret, idx, simres, fitv, fitres, run_log>>

\* residual redistribution and the day's Q_min, R_min; then the next day
DayClose ==
    /\ \/ pc = "close"
       \/ pc = "after" /\ ~EmptyDayWithContent
    /\ day' = Redistribute(day)
    /\ \E q \in Q_final(day'), r \in R_final(day') :
          daily' = [daily EXCEPT ![today].Q_min = q, ![today].R_min = r]
    /\ idx' = idx + 1
    /\ pc' = IF idx + 1 < Len(study_days) THEN "day" ELSE "sim_end"
    /\ UNCHANGED <<inputs, built, study_days, given, ret, queue, reviews_raw,
                   must_force_carryover, simres, fitv, fitres, run_log>>

\* SimEnd reporting completion from the carryover flag instead of the queue
SimEnd_ByFlag ==
    /\ pc = "sim_end"
    /\ IF study_days = <<>>
       THEN /\ pc' = "raised"
            /\ UNCHANGED <<simres, run_log>>
       ELSE /\ all_allocated' = ~must_force_carryover
            /\ reviews' = normalize_reviews(reviews_raw, study_days)
            /\ run_log' = Append(run_log, [given |-> given, ok |-> ~must_force_carryover,
                                           remaining |-> queue])
            /\ pc' = IF ret = "first" THEN "check_first" ELSE "check_loop"
    /\ UNCHANGED <<inputs, built, study_days, simv, fitv, fitres>>

\* all_allocated, normalize_reviews and the return. With no study day the call
\* of normalize_reviews raises ValueError (max of an empty list): nothing is
\* returned, the exception leaves simulate_schedule and try_fit_with_removals,
\* and the program stops at pc "raised". main never gets here: it exits before
\* on an empty calendar.
SimEnd ==
    /\ pc = "sim_end"
    /\ IF study_days = <<>>     \* normalize_reviews(reviews_raw, study_days) is ValueError
       THEN /\ pc' = "raised"
            /\ UNCHANGED <<simres, run_log>>
       ELSE /\ all_allocated' = (Len(queue) = 0)
            /\ reviews' = normalize_reviews(reviews_raw, study_days)
            /\ run_log' = Append(run_log, [given |-> given, ok |-> (Len(queue) = 0),
                                           remaining |-> queue])
            /\ pc' = IF ret = "first" THEN "check_first" ELSE "check_loop"
    /\ UNCHANGED <<inputs, built, study_days, simv, fitv, fitres>>

\* ---------------------------------------------------- try_fit_with_removals
RECURSIVE ModOrder(_, _)
\* the keys of mod_info in insertion order: modules by first appearance in the lessons
ModOrder(ls, seen) ==
    IF ls = <<>> THEN <<>>
    ELSE IF Head(ls).modulo \in seen THEN ModOrder(Tail(ls), seen)
    ELSE <<Head(ls).modulo>> \o ModOrder(Tail(ls), seen \cup {Head(ls).modulo})

\* mod_info.items(): peso from peso_map, custo summed over the lessons given
mod_info(ls, pm) ==
    LET ms == ModOrder(ls, {})
    IN  [i \in DOMAIN ms |->
            [m |-> ms[i], peso |-> PesoGet(pm, ms[i]),
             custo |-> SumDur(SelectSeq(ls, LAMBDA l : l.modulo = ms[i]))]]

\* the sort key with the cost ascending: (peso, custo)
KeyLess_CustoAsc(a, b) == a.peso < b.peso \/ (a.peso = b.peso /\ a.custo < b.custo)

\* key (peso, -custo): a sorts strictly before b
KeyLess(a, b) == a.peso < b.peso \/ (a.peso = b.peso /\ (0 - a.custo) < (0 - b.custo))

RECURSIVE InsertByKey(_, _)
\* x goes after every element that does not sort strictly after it (stable)
InsertByKey(s, x) ==
    IF s = <<>> THEN <<x>>
    ELSE IF KeyLess(x, Head(s)) THEN <<x>> \o s
    ELSE <<Head(s)>> \o InsertByKey(Tail(s), x)

RECURSIVE SortByKey(_, _)
\* sorted(items, key=...), Python's stable sort
SortByKey(items, acc) ==
    IF items = <<>> THEN acc
    ELSE SortByKey(Tail(items), InsertByKey(acc, Head(items)))

\* mods_sorted without its last module
ModsSorted_DropLast(ls, pm) ==
    LET srt == SortByKey(mod_info(ls, pm), <<>>)
    IN  [i \in 1..(Len(srt) - 1) |-> srt[i].m]

\* mods_sorted, as the list of module names
ModsSorted(ls, pm) ==
    LET srt == SortByKey(mod_info(ls, pm), <<>>)
    IN  [i \in DOMAIN srt |-> srt[i].m]

\* [l for l in lessons_all if l["modulo"] in removed_modules]
RemovedLessons(ls, mods) == SelectSeq(ls, LAMBDA l : l.modulo \in Range(mods))

\* the first call: simulate_schedule on the full backlog
FitFirstRun ==
    /\ pc = "fit"
    /\ SimStart(lessons_all, "first")
    /\ UNCHANGED <<inputs, built, study_days, simres, fitv, fitres, run_log>>

\* if ok: return True, daily, reviews, []
FitReturnFirst ==
    /\ pc = "check_first"
    /\ all_allocated
    /\ ok' = TRUE
    /\ removed_lessons' = <<>>
    /\ pc' = "done"
    /\ UNCHANGED <<inputs, built, study_days, simv, simres, fitv, run_log>>

\* the removal order computed from the lessons the first run left over
FitSortModules_Remaining ==
    /\ pc = "check_first"
    /\ ~all_allocated
    /\ mods_sorted' = ModsSorted(queue, peso_map)
    /\ removed_modules' = <<>>
    /\ working_lessons' = lessons_all
    /\ pc' = "fit_loop"
    /\ UNCHANGED <<inputs, built, study_days, simv, simres, fitres, run_log>>

\* mod_info, mods_sorted, removed_modules = [], working_lessons = list(lessons_all)
FitSortModules ==
    /\ pc = "check_first"
    /\ ~all_allocated
    /\ mods_sorted' = ModsSorted(lessons_all, peso_map)
    /\ removed_modules' = <<>>
    /\ working_lessons' = lessons_all
    /\ pc' = "fit_loop"
    /\ UNCHANGED <<inputs, built, study_days, simv, simres, fitres, run_log>>

\* FitNext filtering the full backlog instead of the working copy
FitNext_FromFull ==
    /\ pc = "fit_loop"
    /\ IF Len(removed_modules) < Len(mods_sorted)
       THEN LET m == mods_sorted[Len(removed_modules) + 1]
                wl == SelectSeq(lessons_all, LAMBDA l : l.modulo # m)
            IN  /\ working_lessons' = wl
                /\ removed_modules' = Append(removed_modules, m)
                /\ SimStart(wl, "loop")
                /\ UNCHANGED <<mods_sorted, fitres>>
       ELSE /\ ok' = FALSE
            /\ removed_lessons' = RemovedLessons(lessons_all, removed_modules)
            /\ pc' = "done"
            /\ UNCHANGED <<simv, fitv>>
    /\ UNCHANGED <<inputs, built, study_days, simres, run_log>>

\* for m, meta in mods_sorted: remove m and run again; after the loop: return False
FitNext ==
    /\ pc = "fit_loop"
    /\ IF Len(removed_modules) < Len(mods_sorted)
       THEN LET m == mods_sorted[Len(removed_modules) + 1]
                wl == SelectSeq(working_lessons, LAMBDA l : l.modulo # m)
            IN  /\ working_lessons' = wl
                /\ removed_modules' = Append(removed_modules, m)
                /\ SimStart(wl, "loop")
                /\ UNCHANGED <<mods_sorted, fitres>>
       ELSE /\ ok' = FALSE
            /\ removed_lessons' = RemovedLessons(lessons_all, removed_modules)
            /\ pc' = "done"
            /\ UNCHANGED <<simv, fitv>>
    /\ UNCHANGED <<inputs, built, study_days, simres, run_log>>

\* if ok: return True, daily, reviews, removed_lessons; else the next module
FitCheckLoop ==
    /\ pc = "check_loop"
    /\ IF all_allocated
       THEN /\ ok' = TRUE
            /\ removed_lessons' = RemovedLessons(lessons_all, removed_modules)
            /\ pc' = "done"
       ELSE /\ pc' = "fit_loop"
            /\ UNCHANGED fitres
    /\ UNCHANGED <<inputs, built, study_days, simv, simres, fitv, run_log>>

Next ==
    \/ BuildLessonsQueue
    \/ GenerateStudyDays
    \/ FitFirstRun
    \/ DayBegin
    \/ ForceCarryover
    \/ GreedyFit
    \/ GreedyDefer
    \/ GreedyExit
    \/ ForceEmptyDay
    \/ DayClose
    \/ SimEnd
    \/ FitReturnFirst
    \/ FitSortModules
    \/ FitNext
    \/ FitCheckLoop

Spec == Init /\ [][Next]_vars

\* ---------------------------------------------- generate_study_days on its own
\* main has read an empty lesson sheet and is about to build the calendar
InitCal ==
    /\ pc = "calendar"
    /\ minutos_dia = 100
    /\ temas_df = [m \in Modulos |-> 1]
    /\ aulas_df = <<>>
    /\ cal \in CalInputs
    /\ review_offsets = <<2>>
    /\ lessons_all = build_lessons(temas_df, aulas_df)
    /\ peso_map = build_peso_map(temas_df)
    /\ custo_map = build_custo_map(temas_df, aulas_df)
    /\ Cleared

NextCal == GenerateStudyDays

SpecCal == InitCal /\ [][NextCal]_vars

\* ------------------------------------------ the pipeline on longer calendars
InitWide ==
    /\ pc = "build"
    /\ minutos_dia \in WideBudgets
    /\ temas_df \in [Modulos -> WidePesos]
    /\ aulas_df \in WideSheets
    /\ cal \in WideCals
    /\ review_offsets \in WideOffsets
    /\ lessons_all = <<>> /\ peso_map = <<>> /\ custo_map = <<>>
    /\ Cleared

SpecWide == InitWide /\ [][Next]_vars

\* ================================================================== claims
\* a call of simulate_schedule has started: daily holds every study day
InRun == pc \notin {"build", "calendar", "fit", "exit"}

\* the call of simulate_schedule has returned
Returned == pc \in {"check_first", "check_loop", "done"}

RECURSIVE AllocatedUpTo(_)
\* the A_lessons lists of the first n study days, concatenated in calendar order
AllocatedUpTo(n) ==
    IF n = 0 THEN <<>> ELSE AllocatedUpTo(n - 1) \o daily[study_days[n]].A_lessons

Allocated == AllocatedUpTo(Len(study_days))

Count(s, x) == Cardinality({ i \in DOMAIN s : s[i] = x })

DaysHolding(l) == { d \in DOMAIN daily : l \in Range(daily[d].A_lessons) }

\* C1: during and after every run of simulate_schedule, every lesson of the backlog it
\* was given is in exactly one place, the A_lessons of exactly one study day or the
\* queue (the residual backlog), occurs there once, and nothing else is in either.
C1_ExactlyOnePlace ==
    InRun =>
        /\ \A l \in Range(given) :
              /\ Cardinality(DaysHolding(l)) + (IF l \in Range(queue) THEN 1 ELSE 0) = 1
              /\ Count(Allocated \o queue, l) = 1
        /\ Range(Allocated \o queue) \subseteq Range(given)

\* a returned run that left a residual backlog and filled two days
C1_Witness ==
    /\ pc = "check_first"
    /\ queue # <<>>
    /\ Cardinality({ d \in DOMAIN daily : daily[d].A_lessons # <<>> }) >= 2

\* C2: the A_lessons lists in calendar order followed by the queue are the backlog
\* given, in its order, at every point of a run and on return.
C2_OrderPreserved == InRun => Allocated \o queue = given

\* a returned run in which a day holds two lessons and a later day holds another
C2_Witness ==
    /\ Returned
    /\ \E i \in DOMAIN study_days : \E j \in DOMAIN study_days :
          /\ i < j
          /\ Len(daily[study_days[i]].A_lessons) >= 2
          /\ daily[study_days[j]].A_lessons # <<>>

\* C3: a study day that has been closed with no lesson started with an empty backlog:
\* the queue is empty whenever one of the idx days already closed holds no lesson.
C3_NoEmptyDayWhileContent ==
    InRun =>
        \A i \in 1..idx : daily[study_days[i]].A_lessons = <<>> => queue = <<>>

\* a day whose first lesson did not fit got it through the forced placement of line 1258
C3_Witness ==
    /\ pc = "close"
    /\ Len(daily[today].A_lessons) = 1
    /\ day.force_debt > 0
    /\ queue # <<>>

\* C4: on return, all_allocated is true exactly when the queue is empty, which is after
\* the last study day and exactly when every lesson given is in some day's A_lessons;
\* the call's recorded outcome and residual backlog agree with it.
C4_CompleteIffEmpty ==
    (pc \in {"check_first", "check_loop"}) =>
        /\ idx = Len(study_days)
        /\ all_allocated <=> (queue = <<>>)
        /\ all_allocated <=> (Len(Allocated) = Len(given))
        /\ run_log[Len(run_log)].ok = all_allocated
        /\ run_log[Len(run_log)].remaining = queue

\* a run that returns incomplete with lessons left over
C4_Witness ==
    /\ pc = "check_first"
    /\ ~all_allocated
    /\ queue # <<>>
    /\ Allocated # <<>>

\* C5: the Q_min and R_min recorded for every study day are >= 0.
C5_MinutesNonNegative ==
    InRun => \A d \in DOMAIN daily : daily[d].Q_min >= 0 /\ daily[d].R_min >= 0

\* a day just closed whose Q borrowing and half force debt exceed its Q quota
C5_Witness ==
    /\ pc \in {"day", "sim_end"}
    /\ idx > 0
    /\ day.borrowed_Q > 0
    /\ day.force_debt > 0
    /\ day.Q_quota - day.borrowed_Q - day.force_debt \div 2 < 0
    /\ daily[study_days[idx]].Q_min = 0

\* the backlog without the lessons of the first k modules of the removal order
WithoutFirst(k) ==
    SelectSeq(lessons_all, LAMBDA l : \A j \in 1..k : mods_sorted[j] # l.modulo)

\* the lessons of the first k modules of the removal order, in backlog order
OfFirst(k) ==
    SelectSeq(lessons_all, LAMBDA l : \E j \in 1..k : mods_sorted[j] = l.modulo)

\* the first run of the fitter failed and the removal order has been computed
Removing == run_log # <<>> /\ ~run_log[1].ok /\ pc # "check_first"

\* C6: try_fit_with_removals returns the first successful run of the sequence "full
\* backlog, backlog without the 1st module of the removal order, without the 1st and
\* 2nd, ...": the i-th run is given the backlog without the first i-1 modules, every
\* run before the returned one failed, the schedule returned is that of the last run,
\* and removed_lessons are the lessons of the modules removed before it; when the
\* full backlog fits there is one run, no module removed and an empty removed list.
C6_FirstSuccessfulRun ==
    pc = "done" =>
        LET n == Len(run_log)
        IN  /\ n >= 1
            /\ \A i \in 1..n : run_log[i].given = WithoutFirst(i - 1)
            /\ \A i \in 1..(n - 1) : ~run_log[i].ok
            /\ ok = run_log[n].ok
            /\ given = run_log[n].given /\ queue = run_log[n].remaining
            /\ Len(removed_modules) = n - 1
            /\ removed_lessons = OfFirst(n - 1)
            /\ run_log[1].ok => (n = 1 /\ removed_lessons = <<>> /\ removed_modules = <<>>)

\* success on the second run: one module removed, the other one scheduled
C6_Witness ==
    /\ pc = "done"
    /\ ok
    /\ Len(run_log) = 2
    /\ given # <<>>
    /\ removed_lessons # <<>>
    /\ Len(mods_sorted) = 2

CustoIn(ls, m) == SumDur(SelectSeq(ls, LAMBDA l : l.modulo = m))

\* C7: once the first run has failed, the removal order lists every module of the
\* input backlog once, by ascending weight and, at equal weight, by descending
\* duration summed over the input backlog; it stays so through every removal, and
\* the modules removed so far are a prefix of it.
C7_RemovalOrder ==
    Removing =>
        /\ Range(mods_sorted) = { l.modulo : l \in Range(lessons_all) }
        /\ \A i \in DOMAIN mods_sorted : \A j \in DOMAIN mods_sorted :
              i < j =>
                /\ mods_sorted[i] # mods_sorted[j]
                /\ \/ temas_df[mods_sorted[i]] < temas_df[mods_sorted[j]]
                   \/ /\ temas_df[mods_sorted[i]] = temas_df[mods_sorted[j]]
                      /\ CustoIn(lessons_all, mods_sorted[i]) >= CustoIn(lessons_all, mods_sorted[j])
        /\ Len(removed_modules) <= Len(mods_sorted)
        /\ removed_modules = SubSeq(mods_sorted, 1, Len(removed_modules))

\* two modules of equal weight: the one removed first is the bulkier of the input
\* backlog although it is the lighter one among the lessons the first run left over
C7_Witness ==
    /\ Removing
    /\ Len(mods_sorted) = 2
    /\ Len(removed_modules) = 1
    /\ temas_df[mods_sorted[1]] = temas_df[mods_sorted[2]]
    /\ CustoIn(lessons_all, mods_sorted[1]) > CustoIn(lessons_all, mods_sorted[2])
    /\ CustoIn(run_log[1].remaining, mods_sorted[1]) < CustoIn(run_log[1].remaining, mods_sorted[2])

\* C9: the backlog built holds exactly the rows of the lesson sheet whose module has
\* weight > 0, in sheet order, each with its row's module and duration and its
\* module's weight; no lesson of a module of weight <= 0 is in a day's A_lessons, in
\* the queue or in removed_lessons.
C9_ZeroWeightExcluded ==
    pc # "build" =>
        /\ \A l \in Range(lessons_all) :
              /\ temas_df[l.modulo] > 0
              /\ l.peso = temas_df[l.modulo]
              /\ l.aula \in DOMAIN aulas_df
              /\ aulas_df[l.aula].modulo = l.modulo /\ aulas_df[l.aula].dur = l.dur
        /\ \A i \in DOMAIN aulas_df :
              temas_df[aulas_df[i].modulo] > 0 => \E l \in Range(lessons_all) : l.aula = i
        /\ \A i \in DOMAIN lessons_all : \A j \in DOMAIN lessons_all :
              i < j => lessons_all[i].aula < lessons_all[j].aula
        /\ \A l \in Range(removed_lessons) : temas_df[l.modulo] > 0
        /\ InRun => \A l \in Range(Allocated \o queue) : temas_df[l.modulo] > 0

\* rows 1 and 3 survive and are scheduled, row 2 belongs to a module of weight <= 0
C9_Witness ==
    /\ pc = "done"
    /\ Len(aulas_df) = 3
    /\ temas_df[aulas_df[2].modulo] <= 0
    /\ Len(lessons_all) = 2
    /\ Len(Allocated) = 2

LastStudyDay == CHOOSE m \in Range(study_days) : \A y \in Range(study_days) : y <= m

\* the earliest study day >= t, for t <= LastStudyDay
EarliestOnOrAfter(t) ==
    CHOOSE d \in Range(study_days) :
        d >= t /\ \A e \in Range(study_days) : e >= t => d <= e

RECURSIVE ItemsDue(_, _)
\* the events of the raw entries whose earliest study day on or after the target is D
ItemsDue(raw, D) ==
    IF raw = <<>> THEN <<>>
    ELSE (IF Head(raw).t_raw <= LastStudyDay /\ EarliestOnOrAfter(Head(raw).t_raw) = D
          THEN Head(raw).items ELSE <<>>) \o ItemsDue(Tail(raw), D)

\* C10: in the map normalize_reviews returns, every key is a study day, and the list
\* of a study day D holds exactly the events of the raw targets t <= last study day
\* whose earliest study day >= t is D (a target that is a study day stays on it);
\* the events of targets after the last study day are in no list.
C10_ReviewsOnEarliestStudyDay ==
    Returned =>
        /\ DOMAIN reviews \subseteq Range(study_days)
        /\ \A D \in Range(study_days) :
              IF ItemsDue(reviews_raw, D) = <<>>
              THEN D \notin DOMAIN reviews
              ELSE D \in DOMAIN reviews /\ reviews[D] = ItemsDue(reviews_raw, D)

\* one raw target kept on its study day, one moved forward, one dropped
C10_Witness ==
    /\ Returned
    /\ \E i \in DOMAIN reviews_raw : reviews_raw[i].t_raw \in DOMAIN reviews
    /\ \E i \in DOMAIN reviews_raw :
          /\ reviews_raw[i].t_raw \notin Range(study_days)
          /\ reviews_raw[i].t_raw < LastStudyDay
          /\ EarliestOnOrAfter(reviews_raw[i].t_raw) \in DOMAIN reviews
    /\ \E i \in DOMAIN reviews_raw : reviews_raw[i].t_raw > LastStudyDay

\* ===================================================== the study-day calendar
\* generate_study_days has returned
CalReturned == pc \notin {"build", "calendar"}

\* the dates of [dini, dprova]
InRange == { d \in cal.dini..cal.dprova : TRUE }

\* C11: the study days are strictly ascending (hence free of duplicates) and
\* every one of them lies in [data_inicio, data_prova].
C11_AscendingInRange ==
    CalReturned =>
        /\ \A i \in DOMAIN study_days : study_days[i] \in InRange
        /\ \A i \in 1..(Len(study_days) - 1) : study_days[i] < study_days[i + 1]

\* a range starting in mid-week and covering three weeks, several days a week
C11_Witness ==
    /\ CalReturned
    /\ weekday(cal.dini) = 2 /\ cal.dprova = cal.dini + 12
    /\ cal.custom_weekdays = {} /\ cal.dias_por_semana = 3
    /\ Len(study_days) = 8

\* the number of the Sunday-to-Saturday week of date d (date -1 is a Sunday)
SundayWeek(d) == (d + 1) \div 7

\* the dates of d's week inside [dini, dprova], and the study days among them
WeekInRange(w) == { c \in InRange : SundayWeek(c) = w }
WeekStudied(w) == { c \in Range(study_days) : SundayWeek(c) = w }

\* C12: without a weekday set and with N = dias_por_semana >= 1, the study days
\* of every Sunday-to-Saturday week overlapping the range are the min(N, k)
\* earliest of the k dates of that week inside the range; no week holds more
\* than N study days.
C12_EarliestOfEachWeek ==
    (CalReturned /\ cal.custom_weekdays = {} /\ cal.dias_por_semana >= 1) =>
        \A w \in { SundayWeek(d) : d \in InRange } :
            /\ WeekStudied(w) \subseteq WeekInRange(w)
            /\ Cardinality(WeekStudied(w))
                   = Min(cal.dias_por_semana, Cardinality(WeekInRange(w)))
            /\ Cardinality(WeekStudied(w)) <= cal.dias_por_semana
            /\ \A a \in WeekStudied(w) : \A c \in WeekInRange(w) \ WeekStudied(w) : a < c

\* a first week with fewer dates than N, a full week cut to N, a last partial week
C12_Witness ==
    /\ CalReturned /\ cal.custom_weekdays = {} /\ cal.dias_por_semana = 3
    /\ weekday(cal.dini) = 4 /\ cal.dprova = cal.dini + 13
    /\ Cardinality(WeekInRange(SundayWeek(cal.dini))) = 2
    /\ Cardinality(WeekInRange(SundayWeek(cal.dini) + 1)) = 7
    /\ Len(study_days) = 8

\* C13: with a non-empty weekday set W and a weekly count >= 1 the study days
\* are exactly the dates of the range whose weekday is in W, whatever the count.
C13_ExactlyTheWeekdays ==
    (CalReturned /\ cal.custom_weekdays # {} /\ cal.dias_por_semana >= 1) =>
        /\ Range(study_days) = { d \in InRange : weekday(d) \in cal.custom_weekdays }
        /\ Len(study_days) = Cardinality(Range(study_days))

\* a weekly count of 1 with two weekdays ticked: every week gives both
C13_Witness ==
    /\ CalReturned /\ cal.custom_weekdays = {1, 4} /\ cal.dias_por_semana = 1
    /\ cal.dini = 0 /\ cal.dprova = 13
    /\ study_days = <<1, 4, 8, 11>>

\* C14: a weekly count of zero or less gives no study day, for every range and
\* also when a weekday set is given.
C14_NoDaysWithoutCount ==
    (CalReturned /\ cal.dias_por_semana <= 0) => study_days = <<>>

\* a weekday set whose weekdays occur in the range, and a count of 0
C14_Witness ==
    /\ CalReturned /\ cal.dias_por_semana = 0
    /\ cal.custom_weekdays = {1, 4} /\ cal.dini = 0 /\ cal.dprova = 13
    /\ study_days = <<>> /\ pc = "exit"

\* ======================================================== phases and quotas
\* the simulation is inside a day (between its start and its closing)
InDay == pc \in {"carry", "greedy", "after", "close"}

\* C15: with q = (number of study days) div 4, the day of index i is inicio
\* when i < q, meio when q <= i < 2q, final when 2q <= i < 3q and preprova
\* otherwise; in a calendar of 1 to 3 days every day is preprova. The phase
\* depends on the index in the full calendar only, so it is the same in the
\* first run and in every retry, and it is the phase the day is simulated with.
C15_PhaseByQuartile ==
    InRun =>
        LET n == Len(study_days)
            q == n \div 4
        IN  /\ \A i \in 1..n :
                  LET k == i - 1
                      ph == daily[study_days[i]].phase
                  IN  /\ k < q => ph = "inicio"
                      /\ (q <= k /\ k < 2 * q) => ph = "meio"
                      /\ (2 * q <= k /\ k < 3 * q) => ph = "final"
                      /\ k >= 3 * q => ph = "preprova"
                      /\ n <= 3 => ph = "preprova"
            /\ InDay => day.phase = daily[today].phase

\* a retry on a five-day calendar, inside the day of phase final
C15_Witness ==
    /\ ret = "loop" /\ Len(study_days) = 5 /\ pc = "greedy" /\ idx = 2
    /\ day.phase = "final" /\ daily[today].A_lessons # <<>>
    /\ daily[study_days[1]].phase = "inicio" /\ daily[study_days[5]].phase = "preprova"

\* the quotas day index 0 starts with, before any lesson is placed
FirstDayQuotas == DayQuotas(0, daily[study_days[1]].phase, minutos_dia)

\* four study days and a backlog of one lesson of 150% of the first day's A quota
OversizedFirstLesson ==
    /\ InRun /\ Len(study_days) = 4 /\ Len(given) = 1
    /\ 2 * given[1].dur * SCALE = 3 * FirstDayQuotas.A_quota

\* the Q and R quotas of the phase table for the first day's phase, in 1/SCALE
\* minutes: the unpenalized phase quotas
FirstDayPhaseQ ==
    MulPct(minutos_dia * SCALE, FRACTIONS_BY_PHASE[daily[study_days[1]].phase].Q)

FirstDayPhaseR ==
    MulPct(minutos_dia * SCALE, FRACTIONS_BY_PHASE[daily[study_days[1]].phase].R)

\* C16: with four study days and a backlog of one lesson of 150% of the first
\* day's A quota, the lesson does not fit the first day, which receives it by the
\* forced placement with a positive force debt; the carryover flag is false
\* afterwards; and the first day's Q minutes and R minutes are each strictly
\* below the quota of the phase table for the day's phase.
C16_ForcedFirstDay ==
    OversizedFirstLesson =>
        /\ (idx = 0 /\ pc = "greedy") => ~Fits(day, given[1].dur)
        /\ (idx = 0 /\ pc = "close") =>
              /\ daily[today].A_lessons = given /\ queue = <<>>
              /\ day.force_debt > 0
              /\ ~must_force_carryover
        /\ idx >= 1 =>
              /\ daily[study_days[1]].A_lessons = given
              /\ ~must_force_carryover
              /\ daily[study_days[1]].Q_min * SCALE < FirstDayPhaseQ
              /\ daily[study_days[1]].R_min * SCALE < FirstDayPhaseR

\* the first day has just been closed after the forced placement
C16_Witness ==
    /\ OversizedFirstLesson /\ idx = 1 /\ pc = "day"
    /\ day.force_debt = 32 * SCALE /\ day.borrowed_Q = 8 * SCALE
    /\ daily[study_days[1]].A_lessons = given
    /\ daily[study_days[1]].Q_min = 0 /\ daily[study_days[1]].R_min = 0

\* ========================================================= raw review events
\* the raw events as (target, event) pairs, and their number
RawPairs ==
    UNION { { <<reviews_raw[i].t_raw, reviews_raw[i].items[j]>> :
                j \in DOMAIN reviews_raw[i].items } : i \in DOMAIN reviews_raw }

RECURSIVE RawCount(_)
RawCount(raw) == IF raw = <<>> THEN 0 ELSE Len(Head(raw).items) + RawCount(Tail(raw))

\* C17: every allocated lesson, forced or greedy, has exactly one raw review
\* event per configured offset, with target = allocation day + offset and watch
\* date = allocation day; there is no other raw event, so the lessons still in
\* the queue and the removed lessons have none.
C17_RawEventsOfAllocated ==
    InRun =>
        /\ \A i \in DOMAIN study_days : \A l \in Range(daily[study_days[i]].A_lessons) :
              \A k \in DOMAIN review_offsets :
                  <<study_days[i] + review_offsets[k],
                    [aula |-> l.aula, modulo |-> l.modulo, watched_date |-> study_days[i],
                     peso |-> l.peso]>> \in RawPairs
        /\ RawCount(reviews_raw) = Len(Allocated) * Len(review_offsets)
        /\ Cardinality(RawPairs) = RawCount(reviews_raw)
        /\ \A p \in RawPairs :
              /\ \E l \in Range(daily[p[2].watched_date].A_lessons) : l.aula = p[2].aula
              /\ \E k \in DOMAIN review_offsets :
                    p[1] = p[2].watched_date + review_offsets[k]
              /\ \A l \in Range(queue) : l.aula # p[2].aula
              /\ \A l \in Range(lessons_all) :
                    l \notin Range(given) => l.aula # p[2].aula

\* a retry (a module is removed): two lessons are allocated, the second one by
\* a forced placement that left a force debt, and a third is still in the queue
C17_Witness ==
    /\ ret = "loop" /\ pc = "close" /\ queue # <<>>
    /\ Len(given) < Len(lessons_all)
    /\ idx = 1 /\ Len(Allocated) = 2 /\ day.force_debt > 0
    /\ RawCount(reviews_raw) = 4

\* ========================================================= forced carryover
\* the greedy loop stops at a front lesson that does not fit, on a day that
\* already holds a lesson
StopsWithContent ==
    /\ pc = "greedy" /\ queue # <<>> /\ ~Fits(day, Head(queue).dur)
    /\ daily[today].A_lessons # <<>>

\* the loop has stopped that way and the day is about to be closed
DeferredWithContent ==
    pc = "after" /\ must_force_carryover /\ daily[today].A_lessons # <<>>

\* the stop sets the flag and leaves the lesson at the front of the queue
C18_Stop ==
    StopsWithContent =>
        pc' = "after" /\ must_force_carryover' /\ queue' = queue

\* closing the day keeps the flag and the queue up to the day boundary
C18_Boundary ==
    (DeferredWithContent /\ idx + 1 < Len(study_days)) =>
        pc' = "day" /\ idx' = idx + 1 /\ must_force_carryover' /\ queue' = queue

\* a day that starts with the flag set goes to the forced placement directly
C18_DayStart ==
    (pc = "day" /\ must_force_carryover) =>
        /\ queue # <<>> /\ daily[today].A_lessons = <<>>
        /\ pc' = "carry" /\ must_force_carryover' /\ queue' = queue /\ daily' = daily

\* the forced placement puts the front lesson first on the day, whether or not
\* it fits, and clears the flag
C18_Carry ==
    pc = "carry" =>
        /\ queue # <<>>
        /\ daily'[today].A_lessons = <<Head(queue)>>
        /\ queue' = Tail(queue)
        /\ ~must_force_carryover' /\ pc' = "greedy"

\* C18: whenever the greedy loop of a day stops because the front lesson L does
\* not fit, the day already holds a lesson and it is not the last day, the
\* carryover flag is true at the day boundary and L is the first lesson placed
\* on the next day, whatever that day's budget; no later lesson comes before L.
\* the day's only lesson so far is the one that follows, in the backlog, the
\* lessons of the days before, and the day before holds lessons
CarriedFirst ==
    /\ pc = "greedy" /\ idx >= 1 /\ ~must_force_carryover
    /\ daily[study_days[idx]].A_lessons # <<>>
    /\ Len(daily[today].A_lessons) = 1
    /\ daily[today].A_lessons[1] = given[Len(AllocatedUpTo(idx)) + 1]

C18_ForcedCarryover ==
    [][C18_Stop /\ C18_Boundary /\ C18_DayStart /\ C18_Carry]_vars

\* L has just been carried over to a day it did not fit (force debt), the day
\* before holds lessons, L is the lesson following them and others still wait
C18_Witness ==
    CarriedFirst /\ day.force_debt > 0 /\ queue # <<>>

\* ================================================================ borrowing
\* the Q borrow ratios by phase, in percent, as the specification lists them
BorrowRatioQ == [inicio |-> 40, meio |-> 30, final |-> 20, preprova |-> 15]

\* the fractions (percent) the current day starts with: 80/20/0 on day index 0
InitialFractions ==
    IF idx = 0 THEN [A |-> 80, Q |-> 20, R |-> 0]
    ELSE CASE day.phase = "inicio"   -> [A |-> 75, Q |-> 15, R |-> 10]
           [] day.phase = "meio"     -> [A |-> 65, Q |-> 15, R |-> 20]
           [] day.phase = "final"    -> [A |-> 60, Q |-> 15, R |-> 25]
           [] day.phase = "preprova" -> [A |-> 50, Q |-> 15, R |-> 30]

\* C19: inside every day, after forced and greedy placements alike, the Q and R
\* quotas are still the initial ones, maxBorrowQ = Q_quota x ratio[phase],
\* maxBorrowR = R_quota x 0.10, 0 <= borrowedQ <= maxBorrowQ and
\* 0 <= borrowedR <= maxBorrowR; on day index 0 the quotas are 80/20/0 with the
\* phase's ratio, so maxBorrowR is 0 and no R time is borrowed.
C19_BorrowWithinCeilings ==
    InDay =>
        LET Q0 == MulPct(minutos_dia * SCALE, InitialFractions.Q)
            R0 == MulPct(minutos_dia * SCALE, InitialFractions.R)
        IN  /\ day.Q_quota = Q0 /\ day.R_quota = R0
            /\ day.max_borrow_Q = MulPct(Q0, BorrowRatioQ[day.phase])
            /\ day.max_borrow_R = MulPct(R0, 10)
            /\ 0 <= day.borrowed_Q /\ day.borrowed_Q <= day.max_borrow_Q
            /\ 0 <= day.borrowed_R /\ day.borrowed_R <= day.max_borrow_R
            /\ idx = 0 => (day.max_borrow_R = 0 /\ day.borrowed_R = 0)

\* a later day on which a forced lesson used up both ceilings and left a debt
C19_Witness ==
    /\ InDay /\ idx >= 1 /\ daily[today].A_lessons # <<>>
    /\ day.borrowed_Q = day.max_borrow_Q /\ day.max_borrow_Q > 0
    /\ day.borrowed_R = day.max_borrow_R /\ day.max_borrow_R > 0
    /\ day.force_debt > 0

\* the day's loop is over and nothing more will be placed on it
DayEnding == pc = "close" \/ (pc = "after" /\ ~EmptyDayWithContent)

\* C20: lesson time is taken from A, then from the Q headroom, then from the R
\* headroom: inside every day borrowedQ > 0 implies A_quota = 0 and
\* borrowedR > 0 implies borrowedQ = maxBorrowQ (and a force debt implies that
\* all three are used up); so a day ending with a positive A residual has
\* borrowed nothing and has no force debt.
C20_ConsumptionOrder ==
    InDay =>
        /\ day.A_quota >= 0
        /\ day.borrowed_Q > 0 => day.A_quota = 0
        /\ day.borrowed_R > 0 => day.borrowed_Q = day.max_borrow_Q
        /\ day.force_debt > 0 =>
              /\ day.A_quota = 0
              /\ day.borrowed_Q = day.max_borrow_Q
              /\ day.borrowed_R = day.max_borrow_R
        /\ (DayEnding /\ day.A_quota > 0) =>
              day.borrowed_Q = 0 /\ day.borrowed_R = 0 /\ day.force_debt = 0

\* a greedy placement that took all of A, all of the Q headroom and a part of
\* the R headroom: the second day's only lesson, after a first day that was
\* forced to take an oversized lesson (so no carryover was pending)
C20_Witness ==
    /\ pc = "greedy" /\ idx = 1 /\ Len(daily[today].A_lessons) = 1
    /\ Len(daily[study_days[1]].A_lessons) = 1
    /\ daily[study_days[1]].A_lessons[1].dur > minutos_dia
    /\ day.force_debt = 0
    /\ day.A_quota = 0 /\ day.borrowed_Q = day.max_borrow_Q
    /\ 0 < day.borrowed_R /\ day.borrowed_R < day.max_borrow_R

\* =============================================================== force debt
\* the forced-first procedure is about to place the front lesson
ForcedStep ==
    /\ queue # <<>>
    /\ pc = "carry" \/ (pc = "after" /\ daily[today].A_lessons = <<>>)

\* what is left of A and of the two borrow headrooms
Headroom ==
    day.A_quota + (day.max_borrow_Q - day.borrowed_Q) + (day.max_borrow_R - day.borrowed_R)

\* C21: a forced placement puts the front lesson on the day and raises the
\* day's force debt by exactly max(0, duration - remaining A_quota - remaining
\* Q headroom - remaining R headroom), measured just before it; a greedy
\* placement leaves the force debt as it is.
C21_ForceDebtGrowth ==
    [][ /\ ForcedStep =>
              /\ day'.force_debt
                    = day.force_debt + Max(0, Head(queue).dur * SCALE - Headroom)
              /\ daily'[today].A_lessons = Append(daily[today].A_lessons, Head(queue))
              /\ queue' = Tail(queue)
        /\ pc = "greedy" => day'.force_debt = day.force_debt ]_vars

\* a carried lesson that used up A and both headrooms of a later day: the debt
\* is its duration less the three
C21_Witness ==
    /\ pc = "greedy" /\ idx >= 1 /\ Len(daily[today].A_lessons) = 1
    /\ day.max_borrow_R > 0 /\ day.force_debt > 0
    /\ day.force_debt = daily[today].A_lessons[1].dur * SCALE
                          - MulPct(minutos_dia * SCALE, InitialFractions.A)
                          - day.max_borrow_Q - day.max_borrow_R

\* ======================================================== the end of a day
\* the residual policy in percent, as the specification lists it
ResidualShare ==
    [inicio |-> [Q |-> 100, R |-> 0], meio |-> [Q |-> 70, R |-> 30],
     final |-> [Q |-> 50, R |-> 50], preprova |-> [Q |-> 30, R |-> 70]]

\* m minutes is max(0, round(x)) for x = twice / 2 in 1/SCALE minutes: m is an
\* integer nearest to x, or 0 when x is negative
IsClampedRound(m, twice) ==
    /\ m >= 0
    /\ \/ (2 * m * SCALE - twice <= SCALE /\ twice - 2 * m * SCALE <= SCALE)
       \/ (m = 0 /\ twice < 0)

\* C22: closing a day splits the unconsumed A_quota between Q and R by the
\* phase's residual policy and zeroes it; the minutes recorded are
\* Q_min = max(0, round(Q_quota + Q share - borrowedQ - forceDebt / 2)) and
\* R_min = max(0, round(R_quota + R share - borrowedR - forceDebt / 2)).
C22_ResidualAndMinutes ==
    [][ (DayEnding /\ idx' = idx + 1) =>
            LET resid == day.A_quota
                Qs == MulPct(resid, ResidualShare[day.phase].Q)
                Rs == MulPct(resid, ResidualShare[day.phase].R)
            IN  /\ Qs + Rs = resid
                /\ day'.A_quota = 0
                /\ day'.Q_quota = day.Q_quota + Qs
                /\ day'.R_quota = day.R_quota + Rs
                /\ IsClampedRound(daily'[today].Q_min,
                       2 * (day.Q_quota + Qs - day.borrowed_Q) - day.force_debt)
                /\ IsClampedRound(daily'[today].R_min,
                       2 * (day.R_quota + Rs - day.borrowed_R) - day.force_debt)
                /\ daily'[today].A_lessons = daily[today].A_lessons ]_vars

\* a closed meio day that kept a residual of A: 70% went to Q and 30% to R
C22_Witness ==
    /\ pc = "day" /\ idx >= 1 /\ day.phase = "meio" /\ day.A_quota = 0
    /\ daily[study_days[idx]].A_lessons # <<>>
    /\ day.borrowed_Q = 0 /\ day.force_debt = 0
    /\ day.Q_quota > MulPct(minutos_dia * SCALE, 15)
    /\ day.R_quota > MulPct(minutos_dia * SCALE, 20)
    /\ daily[study_days[idx]].Q_min * SCALE = day.Q_quota
    /\ daily[study_days[idx]].R_min * SCALE = day.R_quota

\* ============================================================ fresh retries
\* simulate_schedule has just been entered
RunStarting == pc = "day" /\ idx = 0

\* simulate_schedule is running
Simulating == pc \in {"day", "carry", "greedy", "after", "close", "sim_end"}

\* C23: every call of simulate_schedule, the first one and each retry, starts
\* with the whole backlog it is given in its queue, the carryover flag false,
\* a day map without lessons or minutes and no raw review event; while it
\* runs, the list it was given and the fitter's lists stay as they are, and
\* the input backlog is never changed once it is built.
C23_FreshRuns ==
    /\ [](RunStarting =>
            /\ given = (IF ret = "first" THEN lessons_all ELSE working_lessons)
            /\ queue = given
            /\ ~must_force_carryover
            /\ reviews_raw = <<>>
            /\ DOMAIN daily = Range(study_days)
            /\ \A d \in DOMAIN daily :
                  daily[d].A_lessons = <<>> /\ daily[d].Q_min = 0 /\ daily[d].R_min = 0)
    /\ [][ /\ pc # "build" => lessons_all' = lessons_all
          /\ Simulating =>
                /\ given' = given
                /\ working_lessons' = working_lessons
                /\ removed_modules' = removed_modules
                /\ mods_sorted' = mods_sorted ]_vars

\* the start of a retry after a run that left lessons over and ended with the
\* carryover flag set
C23_Witness ==
    /\ RunStarting /\ ret = "loop" /\ Len(run_log) = 1
    /\ given # <<>> /\ Len(given) < Len(lessons_all)
    /\ Len(run_log[1].remaining) >= 2
    /\ all_allocated = FALSE

\* ============================================== the duration behind the ties
\* the position of module m's first lesson in the input backlog
FirstLessonOf(m) ==
    CHOOSE i \in DOMAIN lessons_all :
        lessons_all[i].modulo = m /\ \A j \in 1..(i - 1) : lessons_all[j].modulo # m

\* C24 as stated: among modules of equal weight the removal order goes by the
\* duration each module has among the lessons the failed first run left
\* unallocated, the larger first.
C24_AsClaimed ==
    Removing =>
        \A i \in DOMAIN mods_sorted : \A j \in DOMAIN mods_sorted :
            (i < j /\ temas_df[mods_sorted[i]] = temas_df[mods_sorted[j]]) =>
                CustoIn(run_log[1].remaining, mods_sorted[i])
                    >= CustoIn(run_log[1].remaining, mods_sorted[j])

\* C24, amended: the duration that breaks weight ties is the module's total
\* over the whole input backlog of the fitter, the lessons the first run
\* allocated included; among modules of equal weight and equal total the one
\* whose first lesson comes first in the backlog is removed first.
C24_TieByInputTotals ==
    Removing =>
        \A i \in DOMAIN mods_sorted : \A j \in DOMAIN mods_sorted :
            (i < j /\ temas_df[mods_sorted[i]] = temas_df[mods_sorted[j]]) =>
                \/ CustoIn(lessons_all, mods_sorted[i]) > CustoIn(lessons_all, mods_sorted[j])
                \/ /\ CustoIn(lessons_all, mods_sorted[i]) = CustoIn(lessons_all, mods_sorted[j])
                   /\ FirstLessonOf(mods_sorted[i]) < FirstLessonOf(mods_sorted[j])

\* the order has just been computed: two modules of equal weight, the first one
\* has the larger total but the smaller duration among the lessons left over
C24_Witness ==
    /\ pc = "fit_loop" /\ removed_modules = <<>> /\ Len(mods_sorted) = 2
    /\ temas_df[mods_sorted[1]] = temas_df[mods_sorted[2]]
    /\ CustoIn(lessons_all, mods_sorted[1]) > CustoIn(lessons_all, mods_sorted[2])
    /\ CustoIn(queue, mods_sorted[1]) < CustoIn(queue, mods_sorted[2])
    /\ CustoIn(queue, mods_sorted[1]) > 0

\* ===================================================== the fitter's outcome
\* C25: try_fit_with_removals always returns ok = true with a run that left
\* nothing over, and on return the lessons on the days together with the
\* removed lessons are the input backlog, each lesson once.
C25_AlwaysFits ==
    pc = "done" =>
        /\ ok /\ all_allocated /\ queue = <<>>
        /\ Len(Allocated) + Len(removed_lessons) = Len(lessons_all)
        /\ \A l \in Range(lessons_all) :
              Count(Allocated, l) + Count(removed_lessons, l) = 1
        /\ Range(Allocated) \cup Range(removed_lessons) = Range(lessons_all)

\* the fitter had to remove both modules: nothing is scheduled, all is removed
C25_Witness ==
    /\ pc = "done" /\ ok /\ Len(run_log) = 3
    /\ Len(removed_modules) = 2 /\ Len(mods_sorted) = 2
    /\ Allocated = <<>> /\ removed_lessons = lessons_all /\ Len(lessons_all) >= 2

\* ========================================================= enough study days
\* C26: when the backlog given to simulate_schedule has at most as many
\* lessons as there are study days, the run completes with an empty residual
\* backlog whatever the durations and the budget: at every day boundary the
\* lessons still waiting are at most the days still to come, because each day
\* that starts with lessons waiting takes at least one.
C26_EnoughDays ==
    (InRun /\ Len(given) <= Len(study_days)) =>
        /\ pc \in {"day", "sim_end"} => Len(queue) <= Len(study_days) - idx
        /\ pc = "sim_end" => queue = <<>>
        /\ Returned => (queue = <<>> /\ all_allocated)

\* as many lessons as days, each longer than the whole daily budget: one a day
C26_Witness ==
    /\ Returned /\ all_allocated
    /\ Len(given) = Len(study_days) /\ Len(study_days) >= 2
    /\ \A i \in DOMAIN study_days :
          /\ Len(daily[study_days[i]].A_lessons) = 1
          /\ daily[study_days[i]].A_lessons[1].dur > minutos_dia

\* ================================================ one forced lesson per day
\* C27: a forced placement is always the first placement of its day, so a day
\* has at most one; once a forced placement has left a force debt nothing is
\* left of A and of both headrooms, and the day, while it is simulated and
\* when it has been closed, holds exactly that one lesson.
C27_OneForcedPerDay ==
    /\ [](InDay /\ day.force_debt > 0 =>
            Headroom = 0 /\ Len(daily[today].A_lessons) = 1)
    /\ []((pc \in {"day", "sim_end"} /\ idx >= 1 /\ day.force_debt > 0) =>
            Len(daily[study_days[idx]].A_lessons) = 1)
    /\ [][ /\ pc = "carry" =>
                daily[today].A_lessons = <<>> /\ Len(daily'[today].A_lessons) <= 1
          /\ (pc = "after" /\ pc' = "close") =>
                daily[today].A_lessons = <<>> /\ Len(daily'[today].A_lessons) = 1 ]_vars

\* the last day has been closed with a force debt and one lesson, and a lesson
\* is still waiting
C27_Witness ==
    /\ pc = "sim_end" /\ day.force_debt > 0 /\ queue # <<>>
    /\ Len(daily[study_days[idx]].A_lessons) = 1
    /\ Len(study_days) >= 2

\* ============================================================ daily totals
\* a day has just been closed: it is study_days[idx], and day still holds its
\* quotas, borrowings and force debt
JustClosed == pc \in {"day", "sim_end"} /\ idx >= 1

\* lesson minutes plus Q_min plus R_min of the day just closed
ClosedDayTotal ==
    (SumDur(daily[study_days[idx]].A_lessons) + daily[study_days[idx]].Q_min
        + daily[study_days[idx]].R_min) * SCALE

\* the sum of the three initial quotas of the day just closed: the whole budget,
\* but 95% of it on a preprova day other than day index 0
ClosedDayQuotas ==
    IF idx - 1 >= 1 /\ day.phase = "preprova"
    THEN MulPct(minutos_dia * SCALE, 95)
    ELSE minutos_dia * SCALE

\* C28: on every day that ends with zero force debt, lesson minutes + Q_min +
\* R_min differ from the sum of the day's three initial quotas by at most one
\* minute (the budget, or 95% of it on preprova days other than day 0), and
\* never exceed the daily budget by more than one minute.
C28_DailyTotal ==
    (JustClosed /\ day.force_debt = 0) =>
        /\ ClosedDayTotal - ClosedDayQuotas <= SCALE
        /\ ClosedDayQuotas - ClosedDayTotal <= SCALE
        /\ ClosedDayTotal <= minutos_dia * SCALE + SCALE

\* a preprova day after the first that took a lesson by borrowing from Q and R
\* without debt: its total is 95 of the 100 minutes
C28_Witness ==
    /\ JustClosed /\ idx >= 2 /\ day.phase = "preprova" /\ day.force_debt = 0
    /\ day.borrowed_Q > 0 /\ day.borrowed_R > 0
    /\ daily[study_days[idx]].A_lessons # <<>>
    /\ ClosedDayTotal = 95 * SCALE /\ minutos_dia = 100

\* ============================================================ review dates
\* C29: with every review offset >= 1, every review event of the returned map is
\* on a study day strictly later than the day its lesson was watched; the first
\* study day has no review list, and no lesson is reviewed on its watch date.
C29_ReviewsAfterWatching ==
    (Returned /\ \A k \in DOMAIN review_offsets : review_offsets[k] >= 1) =>
        /\ \A D \in DOMAIN reviews :
              /\ D \in Range(study_days)
              /\ \A j \in DOMAIN reviews[D] : D > reviews[D][j].watched_date
        /\ study_days # <<>> => study_days[1] \notin DOMAIN reviews

\* a review moved forward from a day off to a study day after the watch date,
\* and a review of the lesson watched on the first study day
C29_Witness ==
    /\ Returned /\ Len(study_days) >= 2
    /\ \E D \in DOMAIN reviews : \E j \in DOMAIN reviews[D] :
          reviews[D][j].watched_date = study_days[1]
    /\ \E i \in DOMAIN reviews_raw :
          /\ reviews_raw[i].t_raw \notin Range(study_days)
          /\ reviews_raw[i].t_raw < LastStudyDay
          /\ EarliestOnOrAfter(reviews_raw[i].t_raw) \in DOMAIN reviews

\* ============================================================ review counts
RECURSIVE Occurrences(_, _)
\* how many times ev occurs in the list
Occurrences(list, ev) ==
    IF list = <<>> THEN 0
    ELSE (IF Head(list) = ev THEN 1 ELSE 0) + Occurrences(Tail(list), ev)

RECURSIVE OutOccurrencesFrom(_, _)
\* occurrences of ev in the lists of the study days from position i on
OutOccurrencesFrom(i, ev) ==
    IF i > Len(study_days) THEN 0
    ELSE (IF study_days[i] \in DOMAIN reviews
          THEN Occurrences(reviews[study_days[i]], ev) ELSE 0)
         + OutOccurrencesFrom(i + 1, ev)

RECURSIVE KeptOccurrences(_, _)
\* occurrences of ev among the raw events whose target is <= the last study day
KeptOccurrences(raw, ev) ==
    IF raw = <<>> THEN 0
    ELSE (IF Head(raw).t_raw <= LastStudyDay
          THEN Occurrences(Head(raw).items, ev) ELSE 0)
         + KeptOccurrences(Tail(raw), ev)

RECURSIVE OutCountFrom(_)
\* number of events in the lists of the study days from position i on
OutCountFrom(i) ==
    IF i > Len(study_days) THEN 0
    ELSE (IF study_days[i] \in DOMAIN reviews THEN Len(reviews[study_days[i]]) ELSE 0)
         + OutCountFrom(i + 1)

RECURSIVE KeptCount(_)
\* number of raw events whose target is <= the last study day
KeptCount(raw) ==
    IF raw = <<>> THEN 0
    ELSE (IF Head(raw).t_raw <= LastStudyDay THEN Len(Head(raw).items) ELSE 0)
         + KeptCount(Tail(raw))

\* every event value that occurs in the raw map
RawEvents == { reviews_raw[i].items[j] : <<i, j>> \in
                 UNION { {<<i, j>> : j \in DOMAIN reviews_raw[i].items} : i \in DOMAIN reviews_raw } }

\* C30: normalize_reviews drops an event exactly when its raw target is after the
\* last study day: the output holds as many events as the raw map has with target
\* <= last, and each of those occurs in the output as often as in the raw map
\* (nothing duplicated, nothing merged away); events with a later target only do
\* not occur.
C30_NothingLostOrDuplicated ==
    Returned =>
        /\ DOMAIN reviews \subseteq Range(study_days)
        /\ OutCountFrom(1) = KeptCount(reviews_raw)
        /\ \A ev \in RawEvents :
              OutOccurrencesFrom(1, ev) = KeptOccurrences(reviews_raw, ev)

\* two raw targets fall on the same study day with the same event, another raw
\* target lies after the last study day
C30_Witness ==
    /\ Returned
    /\ \E D \in DOMAIN reviews : \E j, k \in DOMAIN reviews[D] :
          j # k /\ reviews[D][j] = reviews[D][k]
    /\ \E i \in DOMAIN reviews_raw : reviews_raw[i].t_raw > LastStudyDay
    /\ KeptCount(reviews_raw) < RawCount(reviews_raw)
    /\ OutCountFrom(1) >= 2

====
